---- MODULE Spec2Model ----
(***************************************************************************)
(* A model of pyhunter.PyHunter (src/pyhunter/pyhunter.py): a client of    *)
(* the Hunter REST API.  The state is the client object (api_key,          *)
(* base_params, base_endpoint) together with a record of the last method   *)
(* call: its arguments, the transport's response, the requests it issued   *)
(* and what it returned or raised.  Every public method is one action.     *)
(***************************************************************************)
EXTENDS Integers, Sequences, FiniteSets, TLC

VARIABLES
    api_key,        \* self.api_key
    base_params,    \* self.base_params, a dict: key -> value
    base_endpoint,  \* self.base_endpoint, the URL template
    calls,          \* number of method calls made on the client so far
    call,           \* the last call: [method, args, raw]
    pre,            \* self.base_params as it was when the last call started
    resp,           \* the transport's response to the last call's request
    sent,           \* the requests the last call handed to the transport
    outcome         \* what the last call returned or raised

vars == <<api_key, base_params, base_endpoint, calls, call, pre, resp, sent, outcome>>

(***************************************************************************)
(* Bounds.                                                                 *)
(***************************************************************************)
MaxCalls == 2

(***************************************************************************)
(* Python values.  Arguments and dict values are tagged so that None, the  *)
(* empty string and 0 stay distinct, as they are for `is not None` and for *)
(* truthiness tests.                                                       *)
(***************************************************************************)
None == [t |-> "none", v |-> 0]
Str(s) == [t |-> "str", v |-> s]
Num(n) == [t |-> "num", v |-> n]
SelfRef == [t |-> "self", v |-> 0]

IsNone(x) == x.t = "none"

\* bool(x): None, "" and 0 are falsy; every other value is truthy.
Truthy(x) ==
    CASE x.t = "none" -> FALSE
      [] x.t = "str" -> x.v # ""
      [] x.t = "num" -> x.v # 0
      [] OTHER -> TRUE

\* str(x), as used to build 'leads/' + str(lead_id).
PyStr(x) ==
    CASE x.t = "str" -> x.v
      [] x.t = "num" -> ToString(x.v)
      [] OTHER -> "None"

(***************************************************************************)
(* Dicts are functions from keys (strings) to values.                      *)
(***************************************************************************)
EmptyDict == [k \in {} |-> None]

\* d[k] = v
Put(d, k, v) == [x \in (DOMAIN d) \cup {k} |-> IF x = k THEN v ELSE d[x]]

\* if cond: d[k] = v
PutIf(cond, d, k, v) == IF cond THEN Put(d, k, v) ELSE d

\* d.update(e)
Update(d, e) == [x \in (DOMAIN d) \cup (DOMAIN e) |-> IF x \in DOMAIN e THEN e[x] ELSE d[x]]

\* d without the key k (d.pop(k) on a dict that has k)
Pop(d, k) == [x \in (DOMAIN d) \ {k} |-> d[x]]

\* dict((key, value) for key, value in args.items() if value is not None)
NotNoneItems(args) == [x \in {k \in DOMAIN args : ~IsNone(args[k])} |-> args[x]]

\* locals() at the top of a method: the receiver and the named arguments.
Locals(a) == [x \in (DOMAIN a) \cup {"self"} |-> IF x = "self" THEN SelfRef ELSE a[x]]

(***************************************************************************)
(* Outcomes of a call.                                                     *)
(***************************************************************************)
Return(type, value) == [kind |-> "return", type |-> type, value |-> value]
Raise(type, value) == [kind |-> "raise", type |-> type, value |-> value]
NoOutcome == [kind |-> "none", type |-> "none", value |-> None]

MsgCompany == "You must supply at least a domain name or a company name"
MsgDomain == "You must supply a domain name"
MsgName == "You must supply a first name AND a last name OR a full name"
MsgEnrich == "You must supply an email or a LinkedIn handle"

\* What a method yields: the client's base_params afterwards, the requests
\* it issued, and its outcome.
Result(bp, reqs, out) == [base_params |-> bp, sent |-> reqs, outcome |-> out]

(***************************************************************************)
(* The transport.  A response has a status, a flag telling whether its     *)
(* body decodes as JSON, and the decoded body (a JSON object).             *)
(***************************************************************************)
Response(status, is_json, body) == [status |-> status, is_json |-> is_json, body |-> body]
NoResponse == Response(0, FALSE, EmptyDict)

DataFull ==
    [email |-> "a@b.com", score |-> 90, calls |-> [available |-> 1000, used |-> 300]]

Responses ==
    { Response(200, TRUE, [data |-> DataFull]),
      Response(200, TRUE, [data |-> [meta |-> "x"]]),
      Response(200, TRUE, [error |-> "invalid key"]),
      Response(204, FALSE, EmptyDict),
      Response(304, FALSE, EmptyDict),
      Response(401, TRUE, [errors |-> "unauthorized"]) }

\* res.raise_for_status(): requests raises HTTPError for 4xx and 5xx.
RaisesForStatus(status) == status >= 400 /\ status < 600

\* base_endpoint.format(suffix): the template is kept as its pieces, "{}"
\* being the replacement field.
RECURSIVE Format(_, _)
Format(template, suffix) ==
    IF template = <<>> THEN ""
    ELSE (IF Head(template) = "{}" THEN suffix ELSE Head(template))
         \o Format(Tail(template), suffix)

\* The request _query_hunter hands to requests.<request_type>.
Request(endpoint, params, request_type, payload, headers) ==
    [method |-> request_type, url |-> endpoint, params |-> params,
     json |-> payload, headers |-> headers]

\* A plausible slip: the raw test made before the status test.
QueryOutcome_RawFirst(raw, res) ==
    IF raw THEN Return("Response", res)
    ELSE IF RaisesForStatus(res.status) THEN Raise("HTTPError", res)
    ELSE IF ~res.is_json THEN Raise("ValueError", res)
    ELSE IF "data" \notin DOMAIN res.body THEN Raise("HunterApiError", res.body)
    ELSE Return("data", res.body["data"])

\* A plausible slip: res.json().get('data'), which yields None for a body
\* that has no 'data'.
QueryOutcome_GetData(raw, res) ==
    IF RaisesForStatus(res.status) THEN Raise("HTTPError", res)
    ELSE IF raw THEN Return("Response", res)
    ELSE IF ~res.is_json THEN Raise("ValueError", res)
    ELSE IF "data" \notin DOMAIN res.body THEN Return("data", None)
    ELSE Return("data", res.body["data"])

\* PyHunter._query_hunter, on the response res the transport gives.
QueryOutcome(raw, res) ==
    IF RaisesForStatus(res.status) THEN Raise("HTTPError", res)
    ELSE IF raw THEN Return("Response", res)
    ELSE IF ~res.is_json THEN Raise("ValueError", res)
    ELSE IF "data" \notin DOMAIN res.body THEN Raise("HunterApiError", res.body)
    ELSE Return("data", res.body["data"])

_query_hunter(endpoint, params, request_type, payload, headers, raw, res) ==
    [request |-> Request(endpoint, params, request_type, payload, headers),
     outcome |-> QueryOutcome(raw, res)]

\* A method that ends in `return self._query_hunter(...)`.
Dispatch(bp, endpoint, params, request_type, payload, raw, res) ==
    LET q == _query_hunter(endpoint, params, request_type, payload, None, raw, res)
    IN  Result(bp, <<q.request>>, q.outcome)

(***************************************************************************)
(* The methods.  Each takes the client (self), its named arguments (a),    *)
(* where it has one the raw flag, and the response the transport will      *)
(* give, and yields a Result.  `params = self.base_params` binds the       *)
(* client's own dict, so the writes a method makes to params are writes to *)
(* self.base_params.                                                       *)
(***************************************************************************)
\* A plausible slip: "exactly one of domain/company" enforced.
domain_search_ExactlyOne(self, a, raw, res) ==
    IF Truthy(a.domain) = Truthy(a.company)
    THEN Result(self.base_params, <<>>, Raise("MissingCompanyError", MsgCompany))
    ELSE
      LET p0 == IF Truthy(a.domain)
                THEN ("domain" :> a.domain) @@ ("api_key" :> self.api_key)
                ELSE ("company" :> a.company) @@ ("api_key" :> self.api_key)
          p1 == PutIf(Truthy(a.limit), p0, "limit", a.limit)
          p2 == PutIf(Truthy(a.offset), p1, "offset", a.offset)
          p3 == PutIf(Truthy(a.seniority), p2, "seniority", a.seniority)
          p4 == PutIf(Truthy(a.department), p3, "department", a.department)
          p5 == PutIf(Truthy(a.emails_type), p4, "type", a.emails_type)
          endpoint == Format(self.base_endpoint, "domain-search")
      IN  Dispatch(self.base_params, endpoint, p5, "get", None, raw, res)

domain_search(self, a, raw, res) ==
    IF ~Truthy(a.domain) /\ ~Truthy(a.company)
    THEN Result(self.base_params, <<>>, Raise("MissingCompanyError", MsgCompany))
    ELSE
      LET p0 == IF Truthy(a.domain)
                THEN ("domain" :> a.domain) @@ ("api_key" :> self.api_key)
                ELSE ("company" :> a.company) @@ ("api_key" :> self.api_key)
          p1 == PutIf(Truthy(a.limit), p0, "limit", a.limit)
          p2 == PutIf(Truthy(a.offset), p1, "offset", a.offset)
          p3 == PutIf(Truthy(a.seniority), p2, "seniority", a.seniority)
          p4 == PutIf(Truthy(a.department), p3, "department", a.department)
          p5 == PutIf(Truthy(a.emails_type), p4, "type", a.emails_type)
          endpoint == Format(self.base_endpoint, "domain-search")
      IN  Dispatch(self.base_params, endpoint, p5, "get", None, raw, res)

\* email, score = res['email'], res['score']
FinderTuple(out) ==
    IF "email" \notin DOMAIN out.value THEN Raise("KeyError", "email")
    ELSE IF "score" \notin DOMAIN out.value THEN Raise("KeyError", "score")
    ELSE Return("tuple", <<out.value["email"], out.value["score"]>>)

\* A plausible slip: `or` for `and` in the name test.
email_finder_AnyName(self, a, raw, res) ==
    LET params == self.base_params
    IN
    IF ~Truthy(a.domain) /\ ~Truthy(a.company)
    THEN Result(params, <<>>, Raise("MissingCompanyError", MsgCompany))
    ELSE
      LET p1 == IF Truthy(a.domain) THEN Put(params, "domain", a.domain)
                ELSE Put(params, "company", a.company)
      IN
      IF ~(Truthy(a.first_name) \/ Truthy(a.last_name)) /\ ~Truthy(a.full_name)
      THEN Result(p1, <<>>, Raise("MissingNameError", MsgName))
      ELSE
        LET p2 == IF Truthy(a.first_name) /\ Truthy(a.last_name)
                  THEN Put(Put(p1, "first_name", a.first_name), "last_name", a.last_name)
                  ELSE PutIf(Truthy(a.full_name), p1, "full_name", a.full_name)
            endpoint == Format(self.base_endpoint, "email-finder")
            q == _query_hunter(endpoint, p2, "get", None, None, raw, res)
        IN  Result(p2, <<q.request>>,
                   IF q.outcome.kind = "raise" \/ raw THEN q.outcome
                   ELSE FinderTuple(q.outcome))

email_finder(self, a, raw, res) ==
    LET params == self.base_params
    IN
    IF ~Truthy(a.domain) /\ ~Truthy(a.company)
    THEN Result(params, <<>>, Raise("MissingCompanyError", MsgCompany))
    ELSE
      LET p1 == IF Truthy(a.domain) THEN Put(params, "domain", a.domain)
                ELSE Put(params, "company", a.company)
      IN
      IF ~(Truthy(a.first_name) /\ Truthy(a.last_name)) /\ ~Truthy(a.full_name)
      THEN Result(p1, <<>>, Raise("MissingNameError", MsgName))
      ELSE
        LET p2 == IF Truthy(a.first_name) /\ Truthy(a.last_name)
                  THEN Put(Put(p1, "first_name", a.first_name), "last_name", a.last_name)
                  ELSE PutIf(Truthy(a.full_name), p1, "full_name", a.full_name)
            endpoint == Format(self.base_endpoint, "email-finder")
            q == _query_hunter(endpoint, p2, "get", None, None, raw, res)
        IN  Result(p2, <<q.request>>,
                   IF q.outcome.kind = "raise" \/ raw THEN q.outcome
                   ELSE FinderTuple(q.outcome))

email_verifier(self, a, raw, res) ==
    LET params == ("email" :> a.email) @@ ("api_key" :> self.api_key)
        endpoint == Format(self.base_endpoint, "email-verifier")
    IN  Dispatch(self.base_params, endpoint, params, "get", None, raw, res)

\* A plausible slip: only the domain is tested.
email_count_DomainOnly(self, a, raw, res) ==
    LET params == self.base_params
    IN
    IF ~Truthy(a.domain)
    THEN Result(params, <<>>, Raise("MissingCompanyError", MsgCompany))
    ELSE
      LET p1 == Put(params, "domain", a.domain)
          endpoint == Format(self.base_endpoint, "email-count")
      IN  Dispatch(p1, endpoint, p1, "get", None, raw, res)

email_count(self, a, raw, res) ==
    LET params == self.base_params
    IN
    IF ~Truthy(a.domain) /\ ~Truthy(a.company)
    THEN Result(params, <<>>, Raise("MissingCompanyError", MsgCompany))
    ELSE
      LET p1 == IF Truthy(a.domain) THEN Put(params, "domain", a.domain)
                ELSE Put(params, "company", a.company)
          endpoint == Format(self.base_endpoint, "email-count")
      IN  Dispatch(p1, endpoint, p1, "get", None, raw, res)

\* res['calls']['left'] = res['calls']['available'] - res['calls']['used']
WithCallsLeft(out) ==
    IF "calls" \notin DOMAIN out.value THEN Raise("KeyError", "calls")
    ELSE IF "available" \notin DOMAIN out.value["calls"] THEN Raise("KeyError", "available")
    ELSE IF "used" \notin DOMAIN out.value["calls"] THEN Raise("KeyError", "used")
    ELSE LET c == out.value["calls"]
         IN  Return("data", Put(out.value, "calls", Put(c, "left", c["available"] - c["used"])))

account_information(self, a, raw, res) ==
    LET params == self.base_params
        endpoint == Format(self.base_endpoint, "account")
        q == _query_hunter(endpoint, params, "get", None, None, raw, res)
    IN  Result(params, <<q.request>>,
               IF q.outcome.kind = "raise" \/ raw THEN q.outcome
               ELSE WithCallsLeft(q.outcome))

email_enrichment(self, a, raw, res) ==
    IF ~Truthy(a.email) /\ ~Truthy(a.linkedin_handle)
    THEN Result(self.base_params, <<>>, Raise("PyhunterError", MsgEnrich))
    ELSE
      LET params == self.base_params
          p1 == PutIf(Truthy(a.email), params, "email", a.email)
          p2 == PutIf(Truthy(a.linkedin_handle), p1, "linkedin_handle", a.linkedin_handle)
          p3 == PutIf(Truthy(a.clearbit_format), p2, "clearbit_format", a.clearbit_format)
          endpoint == Format(self.base_endpoint, "people/find")
      IN  Dispatch(p3, endpoint, p3, "get", None, raw, res)

company_enrichment(self, a, raw, res) ==
    IF ~Truthy(a.domain)
    THEN Result(self.base_params, <<>>, Raise("MissingCompanyError", MsgDomain))
    ELSE
      LET p0 == ("domain" :> a.domain) @@ ("api_key" :> self.api_key)
          p1 == PutIf(Truthy(a.clearbit_format), p0, "clearbit_format", a.clearbit_format)
          endpoint == Format(self.base_endpoint, "companies/find")
      IN  Dispatch(self.base_params, endpoint, p1, "get", None, raw, res)

combined_enrichment(self, a, raw, res) ==
    LET p0 == ("email" :> a.email) @@ ("api_key" :> self.api_key)
        p1 == PutIf(Truthy(a.clearbit_format), p0, "clearbit_format", a.clearbit_format)
        endpoint == Format(self.base_endpoint, "combined/find")
    IN  Dispatch(self.base_params, endpoint, p1, "get", None, raw, res)

get_leads(self, a, res) ==
    LET args == Locals(a)
        args_params == Pop(NotNoneItems(args), "self")
        params == Update(self.base_params, args_params)
        endpoint == Format(self.base_endpoint, "leads")
    IN  Dispatch(params, endpoint, params, "get", None, FALSE, res)

get_lead(self, a, res) ==
    LET params == self.base_params
        endpoint == Format(self.base_endpoint, "leads/" \o PyStr(a.lead_id))
    IN  Dispatch(params, endpoint, params, "get", None, FALSE, res)

\* A plausible slip: the key sent in the JSON body instead of the query.
create_lead_KeyInPayload(self, a, res) ==
    LET args == Locals(a)
        payload == Put(Pop(NotNoneItems(args), "self"), "api_key", self.api_key)
        endpoint == Format(self.base_endpoint, "leads")
    IN  Dispatch(self.base_params, endpoint, EmptyDict, "post", payload, FALSE, res)

create_lead(self, a, res) ==
    LET args == Locals(a)
        payload == Pop(NotNoneItems(args), "self")
        params == self.base_params
        endpoint == Format(self.base_endpoint, "leads")
    IN  Dispatch(params, endpoint, params, "post", payload, FALSE, res)

update_lead(self, a, res) ==
    LET args == Locals(a)
        p0 == Pop(NotNoneItems(args), "self")
    IN
    IF "lead_id" \notin DOMAIN p0
    THEN Result(self.base_params, <<>>, Raise("KeyError", "lead_id"))
    ELSE
      LET payload == Pop(p0, "lead_id")
          params == self.base_params
          endpoint == Format(self.base_endpoint, "leads/" \o PyStr(a.lead_id))
      IN  Dispatch(params, endpoint, params, "put", payload, FALSE, res)

delete_lead(self, a, res) ==
    LET params == self.base_params
        endpoint == Format(self.base_endpoint, "leads/" \o PyStr(a.lead_id))
    IN  Dispatch(params, endpoint, params, "delete", None, FALSE, res)

get_leads_lists(self, a, res) ==
    LET params == self.base_params
        p1 == PutIf(Truthy(a.offset), params, "offset", a.offset)
        p2 == PutIf(Truthy(a.limit), p1, "limit", a.limit)
        endpoint == Format(self.base_endpoint, "leads_lists")
    IN  Dispatch(p2, endpoint, p2, "get", None, FALSE, res)

get_leads_list(self, a, res) ==
    LET params == self.base_params
        endpoint == Format(self.base_endpoint, "leads_lists/" \o PyStr(a.leads_list_id))
    IN  Dispatch(params, endpoint, params, "get", None, FALSE, res)

create_leads_list(self, a, res) ==
    LET params == self.base_params
        payload == PutIf(Truthy(a.team_id), ("name" :> a.name), "team_id", a.team_id)
        endpoint == Format(self.base_endpoint, "leads_lists")
    IN  Dispatch(params, endpoint, params, "post", payload, FALSE, res)

update_leads_list(self, a, res) ==
    LET params == self.base_params
        payload == PutIf(Truthy(a.team_id), ("name" :> a.name), "team_id", a.team_id)
        endpoint == Format(self.base_endpoint, "leads_lists/" \o PyStr(a.leads_list_id))
    IN  Dispatch(params, endpoint, params, "put", payload, FALSE, res)

delete_leads_list(self, a, res) ==
    LET params == self.base_params
        endpoint == Format(self.base_endpoint, "leads_lists/" \o PyStr(a.leads_list_id))
    IN  Dispatch(params, endpoint, params, "delete", None, FALSE, res)

(***************************************************************************)
(* The arguments the calls are made with.  An optional argument is None    *)
(* (left unset), a falsy value ("" or 0) or a truthy one.                  *)
(***************************************************************************)
\* base, and base with one of the fields of vals set to one of its values.
OneSet(base, vals) ==
    {base} \cup {[base EXCEPT ![p] = v] : <<p, v>> \in UNION {{p} \X vals[p] : p \in DOMAIN vals}}

Optional(vals) == {None} \cup vals

NoArgs == [k \in {} |-> None]

DomainSearchFilters ==
    OneSet([limit |-> None, offset |-> None, seniority |-> None,
            department |-> None, emails_type |-> None],
           [limit |-> {Num(0), Num(10)}, offset |-> {Num(5)},
            seniority |-> {Str("senior")}, department |-> {Str("it")},
            emails_type |-> {Str("personal")}])

DomainSearchArgs ==
    {[domain |-> d, company |-> c] @@ f :
        d \in Optional({Str(""), Str("stripe.com")}),
        c \in Optional({Str("Stripe")}),
        f \in DomainSearchFilters}

EmailFinderArgs ==
    [domain : Optional({Str(""), Str("stripe.com")}),
     company : Optional({Str("Stripe")}),
     first_name : Optional({Str("Ada")}),
     last_name : Optional({Str(""), Str("King")}),
     full_name : Optional({Str("Ada King")})]

EmailVerifierArgs == [email : {Str("ada@stripe.com")}]

EmailCountArgs ==
    [domain : Optional({Str(""), Str("stripe.com")}),
     company : Optional({Str("Stripe")})]

EmailEnrichmentArgs ==
    [email : Optional({Str(""), Str("ada@stripe.com")}),
     linkedin_handle : Optional({Str("adaking")}),
     clearbit_format : Optional({Str("true")})]

CompanyEnrichmentArgs ==
    [domain : Optional({Str(""), Str("stripe.com")}),
     clearbit_format : Optional({Str("true")})]

CombinedEnrichmentArgs ==
    [email : {Str("ada@stripe.com")}, clearbit_format : Optional({Str("true")})]

GetLeadsArgs ==
    OneSet([offset |-> None, limit |-> None, lead_list_id |-> None,
            first_name |-> None, last_name |-> None, email |-> None,
            company |-> None, phone_number |-> None, twitter |-> None],
           [offset |-> {Num(0), Num(5)}, limit |-> {Num(10)},
            lead_list_id |-> {Num(3)}, first_name |-> {Str("Ada")},
            last_name |-> {Str("King")}, email |-> {Str(""), Str("ada@stripe.com")},
            company |-> {Str("Stripe")}, phone_number |-> {Str("555")},
            twitter |-> {Str("ada")}])

LeadIdArgs == [lead_id : {Num(7)}]

LeadFields ==
    OneSet([email |-> None, position |-> None, company |-> None,
            company_industry |-> None, company_size |-> None,
            confidence_score |-> None, website |-> None, country_code |-> None,
            postal_code |-> None, source |-> None, linkedin_url |-> None,
            phone_number |-> None, twitter |-> None, leads_list_id |-> None],
           [email |-> {Str(""), Str("ada@stripe.com")}, position |-> {Str("cto")},
            company |-> {Str("Stripe")}, company_industry |-> {Str("finance")},
            company_size |-> {Str("1000")}, confidence_score |-> {Num(0), Num(90)},
            website |-> {Str("stripe.com")}, country_code |-> {Str("US")},
            postal_code |-> {Str("94107")}, source |-> {Str("web")},
            linkedin_url |-> {Str("in/ada")}, phone_number |-> {Str("555")},
            twitter |-> {Str("ada")}, leads_list_id |-> {Num(3)}])

CreateLeadArgs ==
    {[first_name |-> Str("Ada"), last_name |-> Str("King")] @@ f : f \in LeadFields}

UpdateLeadArgs ==
    {[lead_id |-> Num(7), first_name |-> fn, last_name |-> None] @@ f :
        fn \in Optional({Str("Ada")}), f \in LeadFields}

GetLeadsListsArgs ==
    [offset : Optional({Num(0), Num(5)}), limit : Optional({Num(10)})]

LeadsListIdArgs == [leads_list_id : {Num(3)}]

CreateLeadsListArgs == [name : {Str("prospects")}, team_id : Optional({Num(0), Num(2)})]

UpdateLeadsListArgs ==
    [leads_list_id : {Num(3)}, name : {Str("prospects")}, team_id : Optional({Num(2)})]

(***************************************************************************)
(* The client.                                                             *)
(***************************************************************************)
ApiKeys == {"key-A"}

\* PyHunter.__init__
InitBaseParams(key) == ("api_key" :> Str(key))
InitBaseEndpoint == <<"https://api.hunter.io/v2/", "{}">>

Client(key, bp, endpoint) == [api_key |-> key, base_params |-> bp, base_endpoint |-> endpoint]

Self == Client(Str(api_key), base_params, base_endpoint)

\* The method m called on the client self.
Invoke(m, self, a, raw, res) ==
    CASE m = "domain_search" -> domain_search(self, a, raw, res)
      [] m = "email_finder" -> email_finder(self, a, raw, res)
      [] m = "email_verifier" -> email_verifier(self, a, raw, res)
      [] m = "email_count" -> email_count(self, a, raw, res)
      [] m = "account_information" -> account_information(self, a, raw, res)
      [] m = "email_enrichment" -> email_enrichment(self, a, raw, res)
      [] m = "company_enrichment" -> company_enrichment(self, a, raw, res)
      [] m = "combined_enrichment" -> combined_enrichment(self, a, raw, res)
      [] m = "get_leads" -> get_leads(self, a, res)
      [] m = "get_lead" -> get_lead(self, a, res)
      [] m = "create_lead" -> create_lead(self, a, res)
      [] m = "update_lead" -> update_lead(self, a, res)
      [] m = "delete_lead" -> delete_lead(self, a, res)
      [] m = "get_leads_lists" -> get_leads_lists(self, a, res)
      [] m = "get_leads_list" -> get_leads_list(self, a, res)
      [] m = "create_leads_list" -> create_leads_list(self, a, res)
      [] m = "update_leads_list" -> update_leads_list(self, a, res)
      [] m = "delete_leads_list" -> delete_leads_list(self, a, res)

\* No call is in progress: the caller holds no result of the client's.
NoCall == [method |-> "none", args |-> NoArgs, raw |-> FALSE]

Init ==
    /\ api_key \in ApiKeys
    /\ base_params = InitBaseParams(api_key)
    /\ base_endpoint = InitBaseEndpoint
    /\ calls = 0
    /\ call = NoCall
    /\ pre = InitBaseParams(api_key)
    /\ resp = NoResponse
    /\ sent = <<>>
    /\ outcome = NoOutcome

\* One call of method m with arguments a; the transport answers the request,
\* if one is issued, with res.
Call(m, a, raw, res) ==
    LET r == Invoke(m, Self, a, raw, res)
    IN  /\ call = NoCall
        /\ calls < MaxCalls
        /\ calls' = calls + 1
        /\ call' = [method |-> m, args |-> a, raw |-> raw]
        /\ pre' = base_params
        /\ base_params' = r.base_params
        /\ sent' = r.sent
        /\ resp' = IF r.sent = <<>> THEN NoResponse ELSE res
        /\ outcome' = r.outcome
        /\ UNCHANGED <<api_key, base_endpoint>>

\* The caller takes what the call returned or raised; calls are synchronous,
\* so the next call starts only after that.
TakeResult ==
    /\ call # NoCall
    /\ call' = NoCall
    /\ pre' = base_params
    /\ resp' = NoResponse
    /\ sent' = <<>>
    /\ outcome' = NoOutcome
    /\ UNCHANGED <<api_key, base_params, base_endpoint, calls>>

CallDomainSearch ==
    \E a \in DomainSearchArgs, raw \in BOOLEAN, res \in Responses : Call("domain_search", a, raw, res)
CallEmailFinder ==
    \E a \in EmailFinderArgs, raw \in BOOLEAN, res \in Responses : Call("email_finder", a, raw, res)
CallEmailVerifier ==
    \E a \in EmailVerifierArgs, raw \in BOOLEAN, res \in Responses : Call("email_verifier", a, raw, res)
CallEmailCount ==
    \E a \in EmailCountArgs, raw \in BOOLEAN, res \in Responses : Call("email_count", a, raw, res)
CallAccountInformation ==
    \E raw \in BOOLEAN, res \in Responses : Call("account_information", NoArgs, raw, res)
CallEmailEnrichment ==
    \E a \in EmailEnrichmentArgs, raw \in BOOLEAN, res \in Responses : Call("email_enrichment", a, raw, res)
CallCompanyEnrichment ==
    \E a \in CompanyEnrichmentArgs, raw \in BOOLEAN, res \in Responses : Call("company_enrichment", a, raw, res)
CallCombinedEnrichment ==
    \E a \in CombinedEnrichmentArgs, raw \in BOOLEAN, res \in Responses : Call("combined_enrichment", a, raw, res)
CallGetLeads ==
    \E a \in GetLeadsArgs, res \in Responses : Call("get_leads", a, FALSE, res)
CallGetLead ==
    \E a \in LeadIdArgs, res \in Responses : Call("get_lead", a, FALSE, res)
CallCreateLead ==
    \E a \in CreateLeadArgs, res \in Responses : Call("create_lead", a, FALSE, res)
CallUpdateLead ==
    \E a \in UpdateLeadArgs, res \in Responses : Call("update_lead", a, FALSE, res)
CallDeleteLead ==
    \E a \in LeadIdArgs, res \in Responses : Call("delete_lead", a, FALSE, res)
CallGetLeadsLists ==
    \E a \in GetLeadsListsArgs, res \in Responses : Call("get_leads_lists", a, FALSE, res)
CallGetLeadsList ==
    \E a \in LeadsListIdArgs, res \in Responses : Call("get_leads_list", a, FALSE, res)
CallCreateLeadsList ==
    \E a \in CreateLeadsListArgs, res \in Responses : Call("create_leads_list", a, FALSE, res)
CallUpdateLeadsList ==
    \E a \in UpdateLeadsListArgs, res \in Responses : Call("update_leads_list", a, FALSE, res)
CallDeleteLeadsList ==
    \E a \in LeadsListIdArgs, res \in Responses : Call("delete_leads_list", a, FALSE, res)

Next ==
    \/ CallDomainSearch
    \/ CallEmailFinder
    \/ CallEmailVerifier
    \/ CallEmailCount
    \/ CallAccountInformation
    \/ CallEmailEnrichment
    \/ CallCompanyEnrichment
    \/ CallCombinedEnrichment
    \/ CallGetLeads
    \/ CallGetLead
    \/ CallCreateLead
    \/ CallUpdateLead
    \/ CallDeleteLead
    \/ CallGetLeadsLists
    \/ CallGetLeadsList
    \/ CallCreateLeadsList
    \/ CallUpdateLeadsList
    \/ CallDeleteLeadsList
    \/ TakeResult

Spec == Init /\ [][Next]_vars

(***************************************************************************)
(* Properties.  They speak of the call the caller has not yet taken the    *)
(* result of: its arguments (call), the client's base_params before it     *)
(* (pre) and after it (base_params), the requests it issued (sent), the    *)
(* response (resp) and the outcome.                                        *)
(***************************************************************************)
Called == call # NoCall

\* The query-parameter or payload key under which an argument is sent.
KeyOf(m, p) == IF m = "domain_search" /\ p = "emails_type" THEN "type" ELSE p

PayloadKeys(req) == IF req.json = None THEN {} ELSE DOMAIN req.json

ValidationErrors == {"MissingCompanyError", "MissingNameError", "PyhunterError"}

FailedValidation == outcome.kind = "raise" /\ outcome.type \in ValidationErrors

Raised(type) == outcome.kind = "raise" /\ outcome.type = type

\* The client as __init__ leaves it.
FreshClient == Client(Str(api_key), InitBaseParams(api_key), InitBaseEndpoint)

IdentifierMethods == {"domain_search", "email_finder", "email_count"}

\* "set" read as "not None".
IsSet(x) == ~IsNone(x)

\* C1: after any sequence of calls the client's configuration is what
\* __init__ set: base_endpoint is the original template and base_params is
\* exactly {'api_key': key}.
C1_ConfigurationUnchanged ==
    /\ api_key \in ApiKeys
    /\ base_endpoint = InitBaseEndpoint
    /\ base_params = InitBaseParams(api_key)

\* C2: the requests a call issues are the ones the same call issues on a
\* freshly constructed client with the same key, whatever calls came before.
C2_RequestIndependentOfHistory ==
    Called => sent = Invoke(call.method, FreshClient, call.args, call.raw, resp).sent

\* C3: an argument the caller left unset (None) is never a key of the query
\* parameters or of the JSON payload of the request the call issues.
C3_UnsetArgumentNeverSent ==
    Called =>
        \A i \in 1..Len(sent) : \A p \in DOMAIN call.args :
            IsNone(call.args[p]) =>
                /\ KeyOf(call.method, p) \notin DOMAIN sent[i].params
                /\ KeyOf(call.method, p) \notin PayloadKeys(sent[i])

\* C4: a call whose arguments pass validation issues exactly one request,
\* whose query parameters hold 'api_key' with the constructor's key; the key
\* is not in the JSON payload.
C4_OneRequestWithApiKey ==
    (Called /\ ~FailedValidation) =>
        /\ Len(sent) = 1
        /\ "api_key" \in DOMAIN sent[1].params
        /\ sent[1].params["api_key"] = Str(api_key)
        /\ "api_key" \notin PayloadKeys(sent[1])

C4_Witness ==
    /\ call.method = "create_lead"
    /\ calls = 2
    /\ pre # InitBaseParams(api_key)
    /\ Len(sent) = 1
    /\ sent[1].method = "post"
    /\ sent[1].params["api_key"] = Str(api_key)

\* C5 as stated, a success status being a 2xx one: when the response has a
\* non-success status the call raises the transport error, with raw as
\* without; no response object, no data and no HunterApiError is produced.
C5_AsStated ==
    (Called /\ sent # <<>> /\ ~(resp.status >= 200 /\ resp.status < 300)) =>
        /\ outcome = Raise("HTTPError", resp)
        /\ Len(sent) = 1

\* C5, amended: when the response has a 4xx or 5xx status the call raises
\* the transport error, with raw as without: the status test comes before
\* the raw test and before any JSON decoding, so no response object, no data
\* and no HunterApiError is produced, and the one request is not repeated.
C5_ErrorStatusRaisesWhateverRaw ==
    (Called /\ sent # <<>> /\ resp.status >= 400 /\ resp.status < 600) =>
        /\ outcome = Raise("HTTPError", resp)
        /\ Len(sent) = 1

C5_Witness ==
    /\ Called
    /\ call.raw
    /\ resp.status = 401
    /\ Raised("HTTPError")

\* C6: on a response whose status does not raise and whose body decodes to
\* a JSON object, a call without raw raises HunterApiError carrying the
\* whole body exactly when the body has no 'data' (no post-processing runs
\* first); with 'data' present the dispatcher yields its value: the methods
\* that do no post-processing return it, email_finder returns its
\* (email, score) and account_information returns it with calls.left added.
C6_ApiErrorIffNoData ==
    (Called /\ sent # <<>> /\ ~call.raw /\ resp.status < 400 /\ resp.is_json) =>
        /\ "data" \notin DOMAIN resp.body => outcome = Raise("HunterApiError", resp.body)
        /\ "data" \in DOMAIN resp.body =>
            /\ ~Raised("HunterApiError")
            /\ call.method \notin {"email_finder", "account_information"} =>
                   outcome = Return("data", resp.body["data"])
            /\ (call.method = "email_finder" /\ outcome.kind = "return") =>
                   outcome.value = <<resp.body["data"]["email"], resp.body["data"]["score"]>>
            /\ (call.method = "account_information" /\ outcome.kind = "return") =>
                   /\ outcome.value["calls"]["left"] =
                         resp.body["data"]["calls"]["available"] - resp.body["data"]["calls"]["used"]
                   /\ \A k \in DOMAIN resp.body["data"] \ {"calls"} :
                         outcome.value[k] = resp.body["data"][k]

C6_Witness ==
    /\ call.method = "account_information"
    /\ ~call.raw
    /\ resp.body = [error |-> "invalid key"]
    /\ outcome = Raise("HunterApiError", [error |-> "invalid key"])

\* C7 as stated, "set" being "not None": with neither domain nor company set
\* the call raises MissingCompanyError, with exactly one set it does not.
C7_AsStated ==
    (Called /\ call.method \in IdentifierMethods) =>
        /\ (~IsSet(call.args.domain) /\ ~IsSet(call.args.company)) => Raised("MissingCompanyError")
        /\ (IsSet(call.args.domain) # IsSet(call.args.company)) => ~Raised("MissingCompanyError")

\* C7, amended: domain_search, email_finder and email_count raise
\* MissingCompanyError, issuing no request, when neither domain nor company
\* is truthy (None and "" alike), and never raise it when exactly one of
\* them is truthy, whatever the other arguments and whatever calls preceded.
C7_MissingCompanyIffNeitherTruthy ==
    (Called /\ call.method \in IdentifierMethods) =>
        /\ (~Truthy(call.args.domain) /\ ~Truthy(call.args.company)) =>
               (Raised("MissingCompanyError") /\ sent = <<>>)
        /\ (Truthy(call.args.domain) # Truthy(call.args.company)) => ~Raised("MissingCompanyError")

C7_Witness ==
    /\ call.method = "email_count"
    /\ calls = 2
    /\ "domain" \in DOMAIN pre
    /\ IsNone(call.args.domain)
    /\ Truthy(call.args.company)
    /\ ~Raised("MissingCompanyError")

\* C8 as stated, "set" being "not None": email_finder with a domain or a
\* company set raises MissingNameError when only first_name is set and
\* whenever neither first_name and last_name nor full_name is set, and does
\* not raise it when first_name and last_name are set or full_name is.
C8_AsStated ==
    (Called /\ call.method = "email_finder"
            /\ (IsSet(call.args.domain) \/ IsSet(call.args.company))) =>
        LET both == IsSet(call.args.first_name) /\ IsSet(call.args.last_name)
            full == IsSet(call.args.full_name)
        IN  /\ (~both /\ ~full) => Raised("MissingNameError")
            /\ (both \/ full) => ~Raised("MissingNameError")

\* C8, amended: email_finder with a truthy domain or company raises
\* MissingNameError exactly when neither (first_name and last_name) nor
\* full_name is truthy; in particular with only first_name given.
C8_MissingNameIffNoTruthyName ==
    (Called /\ call.method = "email_finder"
            /\ (Truthy(call.args.domain) \/ Truthy(call.args.company))) =>
        LET both == Truthy(call.args.first_name) /\ Truthy(call.args.last_name)
            full == Truthy(call.args.full_name)
        IN  Raised("MissingNameError") <=> (~both /\ ~full)

C8_Witness ==
    /\ call.method = "email_finder"
    /\ Truthy(call.args.domain)
    /\ Truthy(call.args.first_name)
    /\ IsNone(call.args.last_name)
    /\ IsNone(call.args.full_name)
    /\ Raised("MissingNameError")

\* C9 as stated, "set" read as the code reads it (truthy): domain_search
\* with both domain and company set, like with neither, fails with
\* MissingCompanyError and issues no request; only a call with exactly one of
\* them set reaches the dispatcher.
C9_AsStated ==
    (Called /\ call.method = "domain_search") =>
        /\ (Truthy(call.args.domain) = Truthy(call.args.company)) =>
               (Raised("MissingCompanyError") /\ sent = <<>>)
        /\ sent # <<>> => (Truthy(call.args.domain) # Truthy(call.args.company))

\* C9, amended: domain_search needs at least one of domain/company truthy.
\* With neither it fails with MissingCompanyError and issues no request;
\* with at least one it reaches the dispatcher, and with both the request
\* carries the domain and not the company.
C9_AtLeastOneIdentifier ==
    (Called /\ call.method = "domain_search") =>
        LET d == Truthy(call.args.domain)
            c == Truthy(call.args.company)
        IN  /\ (~d /\ ~c) => (Raised("MissingCompanyError") /\ sent = <<>>)
            /\ (d \/ c) => (Len(sent) = 1 /\ ~Raised("MissingCompanyError"))
            /\ (d /\ c) => /\ "domain" \in DOMAIN sent[1].params
                           /\ sent[1].params["domain"] = call.args.domain
                           /\ "company" \notin DOMAIN sent[1].params

C9_Witness ==
    /\ call.method = "domain_search"
    /\ Truthy(call.args.domain)
    /\ Truthy(call.args.company)
    /\ Len(sent) = 1
    /\ "company" \notin DOMAIN sent[1].params

\* C10: a call that fails argument validation issues no request and leaves
\* the client, base_params included, as it was before the call.
C10_FailedValidationHasNoEffect ==
    (Called /\ FailedValidation) =>
        /\ sent = <<>>
        /\ base_params = pre

====
